---- MODULE Spec2Model ----
(***************************************************************************)
(* TaskFlow (src/modern_task_app.py): the task collection of               *)
(* ModernTaskApp, its persisted file tasks.json, the derived view          *)
(* (filtered_tasks), the statistics labels and the handlers that change    *)
(* them.  Text is a sequence of one-character strings, so that strip(),    *)
(* lower() and the substring test are computed as Python computes them.    *)
(* Time is counted in ticks of 1/TicksPerDay day.                          *)
(***************************************************************************)
EXTENDS Integers, Sequences, FiniteSets, TLC

\* ------------------------------------------------------------- bounds
MaxTasks == 2
MaxDay == 8
TicksPerDay == 2

\* ------------------------------------------------- program constants
DueDays == 7

\* ------------------------------------------------------------ inputs
Priorities == {"low", "medium", "high"}
FilterTypes == {"all", "pending", "completed", "high", "today"}
TitleInputs == { <<" ">>, <<" ", "A">> }
DescInputs == { <<"b", " ">> }
PriorityInputs == {"medium", "high"}
SearchInputs == { <<>>, <<"A">> }
IdInputs == 1..(MaxTasks + 1)
QueryTexts ==
    { [title |-> <<"a", "B">>, description |-> <<>>],
      [title |-> <<"b">>, description |-> <<"A">>],
      [title |-> <<"b">>, description |-> <<>>] }
QueryPriorities == {"medium", "high"}
QueryTerms == { <<>>, <<"A">>, <<"a", "b">> }

\* -------------------------------------------------------------- text
\* str.lower() on one character
LowerChar(c) ==
    CASE c = "A" -> "a"
      [] c = "B" -> "b"
      [] OTHER -> c

\* str.lower()
lower(s) == [i \in DOMAIN s |-> LowerChar(s[i])]

RECURSIVE lstrip(_)
lstrip(s) ==
    IF s = <<>> THEN s
    ELSE IF s[1] = " " THEN lstrip(Tail(s)) ELSE s

RECURSIVE rstrip(_)
rstrip(s) ==
    IF s = <<>> THEN s
    ELSE IF s[Len(s)] = " " THEN rstrip(SubSeq(s, 1, Len(s) - 1)) ELSE s

\* str.strip()
strip(s) == rstrip(lstrip(s))

\* Python's  sub in s  on strings
Contains(sub, s) ==
    \E k \in 0..(Len(s) - Len(sub)) : SubSeq(s, k + 1, k + Len(sub)) = sub

\* ------------------------------------------------------------- time
\* datetime.strftime("%Y-%m-%d"): the calendar day of a timestamp
DateOf(t) == t \div TicksPerDay

\* --------------------------------------------------------- variables
VARIABLES
    tasks,           \* self.tasks: sequence of task records, insertion order
    filtered_tasks,  \* self.filtered_tasks: the task objects shown, as positions in tasks
    current_filter,  \* self.current_filter
    search_var,      \* self.search_var
    labels,          \* total_label, completed_label, pending_label
    file,            \* tasks.json
    dialog,          \* the modal dialog that is open, and the task object it edits
    running,         \* the application process is alive
    now,             \* datetime.now(), in ticks
    notice           \* the message the last handler showed the user, "none" if none

vars == <<tasks, filtered_tasks, current_filter, search_var, labels, file,
          dialog, running, now, notice>>

\* ------------------------------------------------------- persistence
\* json.dump of one task: the object's members in insertion order
DumpTask(t) ==
    << <<"id", t.id>>, <<"title", t.title>>, <<"description", t.description>>,
       <<"priority", t.priority>>, <<"status", t.status>>,
       <<"created_at", t.created_at>>, <<"due_date", t.due_date>> >>

\* json.load of one object: the dict of its members
LoadTask(o) ==
    [id |-> o[1][2], title |-> o[2][2], description |-> o[3][2],
     priority |-> o[4][2], status |-> o[5][2],
     created_at |-> o[6][2], due_date |-> o[7][2]]

\* tasks.json is absent
NoFile == [exists |-> FALSE, closed |-> FALSE, objs |-> <<>>]

\* save_tasks run to its end: open(..., 'w') truncates, json.dump writes the
\* array, the with block closes it
save_tasks(ts) ==
    [exists |-> TRUE, closed |-> TRUE, objs |-> [i \in 1..Len(ts) |-> DumpTask(ts[i])]]

\* save_tasks cut short by the death of the process: the file was truncated by
\* open(..., 'w') and holds the first k objects of the array, which is not closed
save_tasks_cut(ts, k) ==
    [exists |-> TRUE, closed |-> FALSE,
     objs |-> [i \in 1..k |-> DumpTask(ts[i])]]

\* load_tasks that keeps the objects read before json.load raised
load_tasks_keeps_partial(f) ==
    IF f.exists
    THEN [i \in 1..Len(f.objs) |-> LoadTask(f.objs[i])]
    ELSE <<>>

\* load_tasks: [] when the file is absent or json.load raises
load_tasks(f) ==
    IF f.exists
    THEN IF f.closed
         THEN [i \in 1..Len(f.objs) |-> LoadTask(f.objs[i])]
         ELSE <<>>
    ELSE <<>>

\* ------------------------------------------------------------ queries
\* the list comprehension of one filter_type, as positions in ts
FilterStage(ts, filter_type, today) ==
    LET all == [i \in 1..Len(ts) |-> i] IN
    CASE filter_type = "all"       -> all
      [] filter_type = "pending"   -> SelectSeq(all, LAMBDA i : ts[i].status = "pending")
      [] filter_type = "completed" -> SelectSeq(all, LAMBDA i : ts[i].status = "completed")
      [] filter_type = "high"      -> SelectSeq(all, LAMBDA i : ts[i].priority = "high")
      [] filter_type = "today"     -> SelectSeq(all, LAMBDA i : ts[i].due_date = today)

\* a search that looks at the title only
SearchStage_title_only(ps, ts, term) ==
    IF term # <<>>
    THEN SelectSeq(ps, LAMBDA i : Contains(lower(term), lower(ts[i].title)))
    ELSE ps

\* the search comprehension over the filtered list
SearchStage(ps, ts, term) ==
    IF term # <<>>
    THEN LET search_term == lower(term) IN
         SelectSeq(ps, LAMBDA i : \/ Contains(search_term, lower(ts[i].title))
                                  \/ Contains(search_term, lower(ts[i].description)))
    ELSE ps

\* filter_tasks: the new value of self.filtered_tasks
filter_tasks(ts, filter_type, term, today) ==
    SearchStage(FilterStage(ts, filter_type, today), ts, term)

\* update_stats: the texts of the three labels
update_stats(ts) ==
    LET total == Len(ts)
        completed == Cardinality({i \in 1..Len(ts) : ts[i].status = "completed"})
    IN  [total |-> total, completed |-> completed, pending |-> total - completed]

\* the task objects shown, by value
View == [i \in 1..Len(filtered_tasks) |-> tasks[filtered_tasks[i]]]

Today == DateOf(now)

\* (due_date - datetime.now()).days: due_date parses to midnight of its day, and
\* the days of a timedelta are its floor
days_until(task, t) == (task.due_date * TicksPerDay - t) \div TicksPerDay

\* the due label of a task card drawn at time t: its suffix and its colour
due_label(task, t) ==
    IF days_until(task, t) < 0 THEN [text |-> "Overdue", color |-> "danger"]
    ELSE IF days_until(task, t) = 0 THEN [text |-> "Today", color |-> "warning"]
    ELSE IF days_until(task, t) <= 3 THEN [text |-> "days", color |-> "warning"]
    ELSE [text |-> "days", color |-> "text_secondary"]

NoDialog == [kind |-> "none", task |-> 0]

\* next(t for t in self.tasks if t['id'] == task_id), as a position; 0 is None
FirstWithId(ts, task_id) ==
    IF \E i \in 1..Len(ts) : ts[i].id = task_id
    THEN CHOOSE i \in 1..Len(ts) :
            /\ ts[i].id = task_id
            /\ \A j \in 1..(i - 1) : ts[j].id # task_id
    ELSE 0

\* --------------------------------------------------------------- Init
\* the first start, with no tasks.json
Init ==
    /\ tasks = <<>>
    /\ filtered_tasks = <<>>
    /\ current_filter = "all"
    /\ search_var = <<>>
    /\ labels = update_stats(<<>>)
    /\ file = NoFile
    /\ dialog = NoDialog
    /\ running = TRUE
    /\ now = 0
    /\ notice = "none"

\* ----------------------------------------------------------- handlers
\* the id add_task gives the new task
NewId(ts) == Len(ts) + 1

\* the dict add_task builds
NewTask(ts, title, description, priority, t) ==
    [id |-> NewId(ts), title |-> title, description |-> description,
     priority |-> priority, status |-> "pending",
     created_at |-> t, due_date |-> DateOf(t + DueDays * TicksPerDay)]

show_add_task_dialog ==
    /\ running /\ dialog.kind = "none"
    /\ dialog' = [kind |-> "add", task |-> 0]
    /\ notice' = "none"
    /\ UNCHANGED <<tasks, filtered_tasks, current_filter, search_var, labels,
                   file, running, now>>

add_task(title_in, desc_in, priority) ==
    /\ running /\ dialog.kind = "add"
    /\ LET title == strip(title_in)
           description == strip(desc_in)
       IN  IF title = <<>>
           THEN /\ notice' = "Please enter a task title!"
                /\ UNCHANGED <<tasks, filtered_tasks, current_filter, search_var,
                               labels, file, dialog, running, now>>
           ELSE /\ Len(tasks) < MaxTasks
                /\ tasks' = Append(tasks, NewTask(tasks, title, description, priority, now))
                /\ file' = save_tasks(tasks')
                /\ filtered_tasks' = filter_tasks(tasks', current_filter, search_var, Today)
                /\ labels' = update_stats(tasks')
                /\ dialog' = NoDialog
                /\ notice' = "Task added successfully!"
                /\ UNCHANGED <<current_filter, search_var, running, now>>

\* Cancel in either dialog: dialog.destroy
cancel_dialog ==
    /\ running /\ dialog.kind # "none"
    /\ dialog' = NoDialog
    /\ notice' = "none"
    /\ UNCHANGED <<tasks, filtered_tasks, current_filter, search_var, labels,
                   file, running, now>>

\* the loop of toggle_task_status: the first task with the id gets the status
toggled(ts, task_id, completed) ==
    LET k == FirstWithId(ts, task_id) IN
    IF k = 0 THEN ts
    ELSE [ts EXCEPT ![k].status = IF completed THEN "completed" ELSE "pending"]

toggle_task_status(task_id, completed) ==
    /\ running /\ dialog.kind = "none"
    /\ tasks' = toggled(tasks, task_id, completed)
    /\ file' = save_tasks(tasks')
    /\ filtered_tasks' = filter_tasks(tasks', current_filter, search_var, Today)
    /\ labels' = update_stats(tasks')
    /\ notice' = IF completed THEN "Task completed!" ELSE "Task reopened!"
    /\ UNCHANGED <<current_filter, search_var, dialog, running, now>>

\* edit_task up to the opening of its dialog; the dialog keeps the task object
edit_task(task_id) ==
    /\ running /\ dialog.kind = "none"
    /\ LET k == FirstWithId(tasks, task_id) IN
       dialog' = IF k = 0 THEN NoDialog ELSE [kind |-> "edit", task |-> k]
    /\ notice' = "none"
    /\ UNCHANGED <<tasks, filtered_tasks, current_filter, search_var, labels,
                   file, running, now>>

\* save_changes that also sets the task back to pending
edited_resets_status(ts, k, title, description, priority) ==
    [ts EXCEPT ![k].title = title,
               ![k].description = description,
               ![k].priority = priority,
               ![k].status = "pending"]

\* save_changes stamping the task anew
edited_restamps(ts, k, title, description, priority) ==
    [ts EXCEPT ![k].title = title,
               ![k].description = description,
               ![k].priority = priority,
               ![k].created_at = now]

\* the three assignments that open save_changes
edited(ts, k, title, description, priority) ==
    [ts EXCEPT ![k].title = title,
               ![k].description = description,
               ![k].priority = priority]

save_changes(title_in, desc_in, priority) ==
    /\ running /\ dialog.kind = "edit"
    /\ tasks' = edited(tasks, dialog.task, strip(title_in), strip(desc_in), priority)
    /\ IF tasks'[dialog.task].title = <<>>
       THEN /\ notice' = "Please enter a task title!"
            /\ UNCHANGED <<filtered_tasks, file, dialog>>
       ELSE /\ file' = save_tasks(tasks')
            /\ filtered_tasks' = filter_tasks(tasks', current_filter, search_var, Today)
            /\ dialog' = NoDialog
            /\ notice' = "Task updated successfully!"
    /\ UNCHANGED <<current_filter, search_var, labels, running, now>>

\* the list comprehension of delete_task
deleted(ts, task_id) == SelectSeq(ts, LAMBDA t : t.id # task_id)

\* delete_task without its call of update_stats
delete_task_stale_stats(task_id, confirmed) ==
    /\ running /\ dialog.kind = "none"
    /\ IF confirmed
       THEN /\ tasks' = deleted(tasks, task_id)
            /\ file' = save_tasks(tasks')
            /\ filtered_tasks' = filter_tasks(tasks', current_filter, search_var, Today)
            /\ notice' = "Task deleted!"
       ELSE /\ notice' = "none"
            /\ UNCHANGED <<tasks, file, filtered_tasks>>
    /\ UNCHANGED <<current_filter, search_var, labels, dialog, running, now>>

\* delete_task; confirmed is the answer to askyesno
delete_task(task_id, confirmed) ==
    /\ running /\ dialog.kind = "none"
    /\ IF confirmed
       THEN /\ tasks' = deleted(tasks, task_id)
            /\ file' = save_tasks(tasks')
            /\ filtered_tasks' = filter_tasks(tasks', current_filter, search_var, Today)
            /\ labels' = update_stats(tasks')
            /\ notice' = "Task deleted!"
       ELSE /\ notice' = "none"
            /\ UNCHANGED <<tasks, file, filtered_tasks, labels>>
    /\ UNCHANGED <<current_filter, search_var, dialog, running, now>>

\* a filter button that narrows self.tasks itself
filter_button_in_place(filter_type) ==
    /\ running /\ dialog.kind = "none"
    /\ current_filter' = filter_type
    /\ LET ps == filter_tasks(tasks, filter_type, search_var, Today) IN
       /\ tasks' = [i \in 1..Len(ps) |-> tasks[ps[i]]]
       /\ filtered_tasks' = [i \in 1..Len(ps) |-> i]
    /\ notice' = "none"
    /\ UNCHANGED <<search_var, labels, file, dialog, running, now>>

\* a filter button: filter_tasks(filter_type)
filter_button(filter_type) ==
    /\ running /\ dialog.kind = "none"
    /\ current_filter' = filter_type
    /\ filtered_tasks' = filter_tasks(tasks, filter_type, search_var, Today)
    /\ notice' = "none"
    /\ UNCHANGED <<tasks, search_var, labels, file, dialog, running, now>>

\* a write of search_var: search_tasks
search_tasks(term) ==
    /\ running /\ dialog.kind = "none"
    /\ search_var' = term
    /\ filtered_tasks' = filter_tasks(tasks, current_filter, term, Today)
    /\ notice' = "none"
    /\ UNCHANGED <<tasks, current_filter, labels, file, dialog, running, now>>

\* what is left of the process's memory once it is gone
Stopped ==
    /\ tasks' = <<>>
    /\ filtered_tasks' = <<>>
    /\ current_filter' = "all"
    /\ search_var' = <<>>
    /\ labels' = update_stats(<<>>)
    /\ dialog' = NoDialog
    /\ running' = FALSE

\* on_closing: save, then destroy the window
on_closing ==
    /\ running
    /\ file' = save_tasks(tasks)
    /\ Stopped
    /\ notice' = "none"
    /\ UNCHANGED now

\* the process dies inside the save_tasks of on_closing, k objects written
on_closing_crash(k) ==
    /\ running
    /\ k \in 0..Len(tasks)
    /\ file' = save_tasks_cut(tasks, k)
    /\ Stopped
    /\ notice' = "none"
    /\ UNCHANGED now

\* the process dies inside the save_tasks of add_task, k objects written
add_task_crash(title_in, desc_in, priority, k) ==
    /\ running /\ dialog.kind = "add"
    /\ strip(title_in) # <<>>
    /\ Len(tasks) < MaxTasks
    /\ LET ts == Append(tasks, NewTask(tasks, strip(title_in), strip(desc_in), priority, now))
       IN  /\ k \in 0..Len(ts)
           /\ file' = save_tasks_cut(ts, k)
    /\ Stopped
    /\ notice' = "none"
    /\ UNCHANGED now

\* __init__ of a later run: load, copy, filter 'all', empty search, update_stats
launch ==
    /\ ~running
    /\ tasks' = load_tasks(file)
    /\ filtered_tasks' = [i \in 1..Len(tasks') |-> i]
    /\ current_filter' = "all"
    /\ search_var' = <<>>
    /\ labels' = update_stats(tasks')
    /\ dialog' = NoDialog
    /\ running' = TRUE
    /\ notice' = "none"
    /\ UNCHANGED <<file, now>>

\* time passes within the day
tick ==
    /\ (now + 1) % TicksPerDay # 0
    /\ now' = now + 1
    /\ UNCHANGED <<tasks, filtered_tasks, current_filter, search_var, labels,
                   file, dialog, running, notice>>

\* DueDays days pass
pass_days ==
    /\ DateOf(now) + DueDays <= MaxDay
    /\ now' = now + DueDays * TicksPerDay
    /\ UNCHANGED <<tasks, filtered_tasks, current_filter, search_var, labels,
                   file, dialog, running, notice>>

Next ==
    \/ show_add_task_dialog
    \/ \E t \in TitleInputs, d \in DescInputs, p \in PriorityInputs : add_task(t, d, p)
    \/ cancel_dialog
    \/ \E i \in IdInputs, c \in BOOLEAN : toggle_task_status(i, c)
    \/ \E i \in IdInputs : edit_task(i)
    \/ \E t \in TitleInputs, d \in DescInputs, p \in PriorityInputs : save_changes(t, d, p)
    \/ \E i \in IdInputs, c \in BOOLEAN : delete_task(i, c)
    \/ \E f \in FilterTypes : filter_button(f)
    \/ \E s \in SearchInputs : search_tasks(s)
    \/ on_closing
    \/ \E k \in 0..MaxTasks : on_closing_crash(k)
    \/ \E t \in TitleInputs, d \in DescInputs, p \in PriorityInputs, k \in 0..MaxTasks :
          add_task_crash(t, d, p, k)
    \/ launch

Spec == Init /\ [][Next]_vars

\* the handlers that change the collection, the view left on 'all'
NextStore ==
    \/ show_add_task_dialog
    \/ \E t \in TitleInputs, d \in DescInputs, p \in PriorityInputs : add_task(t, d, p)
    \/ cancel_dialog
    \/ \E i \in IdInputs, c \in BOOLEAN : toggle_task_status(i, c)
    \/ \E i \in IdInputs : edit_task(i)
    \/ \E t \in TitleInputs, d \in DescInputs, p \in PriorityInputs : save_changes(t, d, p)
    \/ \E i \in IdInputs, c \in BOOLEAN : delete_task(i, c)
    \/ on_closing
    \/ launch

SpecStore == Init /\ [][NextStore]_vars

\* the handlers that write tasks.json, the deaths inside a save, and the restart
NextPersist ==
    \/ show_add_task_dialog
    \/ \E t \in TitleInputs, d \in DescInputs, p \in PriorityInputs : add_task(t, d, p)
    \/ \E i \in IdInputs, c \in BOOLEAN : toggle_task_status(i, c)
    \/ \E i \in IdInputs, c \in BOOLEAN : delete_task(i, c)
    \/ on_closing
    \/ \E k \in 0..MaxTasks : on_closing_crash(k)
    \/ \E t \in TitleInputs, d \in DescInputs, p \in PriorityInputs, k \in 0..MaxTasks :
          add_task_crash(t, d, p, k)
    \/ launch

SpecPersist == Init /\ [][NextPersist]_vars

\* every handler of the window, over days
NextFrame ==
    \/ show_add_task_dialog
    \/ \E t \in TitleInputs, d \in DescInputs, p \in PriorityInputs : add_task(t, d, p)
    \/ cancel_dialog
    \/ \E i \in IdInputs, c \in BOOLEAN : toggle_task_status(i, c)
    \/ \E i \in IdInputs : edit_task(i)
    \/ \E t \in TitleInputs, d \in DescInputs, p \in PriorityInputs : save_changes(t, d, p)
    \/ \E i \in IdInputs, c \in BOOLEAN : delete_task(i, c)
    \/ \E f \in FilterTypes : filter_button(f)
    \/ \E s \in SearchInputs : search_tasks(s)
    \/ pass_days

SpecFrame == Init /\ [][NextFrame]_vars

\* ------------------------------------------- the queries on their own
\* a task of a loaded collection: made on day 0 or on day 1
QueryTasks ==
    { [id |-> 0, title |-> x.title, description |-> x.description, priority |-> p,
       status |-> s, created_at |-> c, due_date |-> 0] :
         x \in QueryTexts, p \in QueryPriorities, s \in {"pending", "completed"},
         c \in {0, TicksPerDay} }

\* the task as add_task made it at position i of the collection
Stored(t, i) ==
    [t EXCEPT !.id = i, !.due_date = DateOf(t.created_at + DueDays * TicksPerDay)]

\* the collections of n such tasks, ids 1..n
QueryCollections(n) ==
    { [i \in 1..n |-> Stored(c[i], i)] : c \in [1..n -> QueryTasks] }

\* a run started on day 1 with a saved collection
InitQuery ==
    /\ \E n \in 0..MaxTasks : tasks \in QueryCollections(n)
    /\ filtered_tasks = [i \in 1..Len(tasks) |-> i]
    /\ current_filter = "all"
    /\ search_var = <<>>
    /\ labels = update_stats(tasks)
    /\ file = save_tasks(tasks)
    /\ dialog = NoDialog
    /\ running = TRUE
    /\ now = TicksPerDay
    /\ notice = "none"

NextQuery ==
    \/ \E f \in FilterTypes : filter_button(f)
    \/ \E s \in QueryTerms : search_tasks(s)
    \/ pass_days

SpecQuery == InitQuery /\ [][NextQuery]_vars

\* the cards of a loaded collection redrawn at any time of any day
NextClock ==
    \/ \E f \in FilterTypes : filter_button(f)
    \/ tick
    \/ pass_days

SpecClock == InitQuery /\ [][NextClock]_vars

\* ============================================================ claims
Ids(ts) == { ts[i].id : i \in 1..Len(ts) }

MaxOf(S) == IF S = {} THEN 0 ELSE CHOOSE m \in S : \A x \in S : x <= m

\* a step of a living process that appends one task
AddStep == running /\ running' /\ Len(tasks') = Len(tasks) + 1

\* a step that is toggle_task_status
ToggleStep == \E i \in IdInputs, c \in BOOLEAN : toggle_task_status(i, c)

\* s is t with some elements left out, the others in t's order
RECURSIVE IsSubsequence(_, _)
IsSubsequence(s, t) ==
    IF s = <<>> THEN TRUE
    ELSE IF t = <<>> THEN FALSE
    ELSE IF Head(s) = Head(t) THEN IsSubsequence(Tail(s), Tail(t))
    ELSE IsSubsequence(s, Tail(t))

\* C1: the ids of the tasks in the store are pairwise distinct and an id once
\* given is never given again; the code gives len(tasks) + 1, so after a
\* delete the next add repeats an id that is still in the store.
C1_IdsUnique ==
    \A i, j \in 1..Len(tasks) : i # j => tasks[i].id # tasks[j].id

\* C2: add gives the new task the id 1 + max(ids in the store), 1 when the
\* store is empty.
C2_AddGivesMaxPlusOne ==
    [][AddStep => tasks'[Len(tasks')].id = MaxOf(Ids(tasks)) + 1]_vars

\* C3: no task in memory and no task in the persisted file has a title that
\* is empty after trimming.
C3_NoEmptyTitle ==
    /\ \A i \in 1..Len(tasks) : strip(tasks[i].title) # <<>>
    /\ \A i \in 1..Len(load_tasks(file)) : strip(load_tasks(file)[i].title) # <<>>

\* the persisted half of C3 on its own
C3_NoEmptyTitleInFile ==
    \A i \in 1..Len(load_tasks(file)) : strip(load_tasks(file)[i].title) # <<>>

\* C4, the state part: a completed task in the store becomes pending by
\* toggle_task_status(its id, False).
C4_Reopenable ==
    running =>
        \A i \in 1..Len(tasks) :
            tasks[i].status = "completed" =>
                toggled(tasks, tasks[i].id, FALSE)[i].status = "pending"

\* C4, the step part: a task is appended pending; while the process lives, a
\* step that changes the status of a task is toggle_task_status; a step that
\* drops tasks leaves the others as they were.
C4_StatusStep ==
    (running /\ running') =>
        /\ AddStep => tasks'[Len(tasks')].status = "pending"
        /\ Len(tasks') >= Len(tasks) =>
              \/ \A i \in 1..Len(tasks) : tasks'[i].status = tasks[i].status
              \/ ToggleStep
        /\ Len(tasks') < Len(tasks) => IsSubsequence(tasks', tasks)

\* C4: every task is created pending, its status changes only through
\* setStatus, and a completed task in the store can be set back to pending.
C4_StatusMachine == [][C4_StatusStep]_vars /\ []C4_Reopenable

\* C4 witness: toggle_task_status has just completed a task whose id a second
\* task carries too.
C4_Witness ==
    /\ running /\ Len(tasks) = 2
    /\ tasks[1].id = tasks[2].id
    /\ tasks[1].status = "completed"
    /\ notice = "Task completed!"

\* C5: the statistics shown are those of the collection: total = number of
\* tasks, completed = number of completed tasks, pending = total - completed.
C5_StatsShown ==
    LET done == Cardinality({i \in 1..Len(tasks) : tasks[i].status = "completed"}) IN
    /\ labels.total = Len(tasks)
    /\ labels.completed = done
    /\ labels.pending = Len(tasks) - done
    /\ labels.pending = Cardinality({i \in 1..Len(tasks) : tasks[i].status = "pending"})

\* C5 witness: after a delete, one completed task is left and shown.
C5_Witness ==
    /\ running /\ notice = "Task deleted!"
    /\ Len(tasks) = 1 /\ labels.completed = 1

\* the two letters are the same up to case
SameLetter(a, b) == a = b \/ {a, b} = {"a", "A"} \/ {a, b} = {"b", "B"}

\* term occurs in text, case ignored
OccursIn(term, text) ==
    \E start \in 1..(Len(text) - Len(term) + 1) :
        \A j \in 1..Len(term) : SameLetter(term[j], text[start + j - 1])

\* filter(kind, tasks) of the specification
C6_filter(kind, ts, today) ==
    SelectSeq(ts, LAMBDA t :
        CASE kind = "all"       -> TRUE
          [] kind = "pending"   -> t.status = "pending"
          [] kind = "completed" -> t.status = "completed"
          [] kind = "high"      -> t.priority = "high"
          [] kind = "today"     -> t.due_date = today)

\* search(term, tasks) of the specification
C6_search(term, ts) ==
    IF term = <<>> THEN ts
    ELSE SelectSeq(ts, LAMBDA t : OccursIn(term, t.title) \/ OccursIn(term, t.description))

\* a step that is a filter button or a write of the search box
QueryStep ==
    \/ \E f \in FilterTypes : filter_button(f)
    \/ \E s \in QueryTerms \cup SearchInputs : search_tasks(s)

\* C6: the view a filter or search step leaves is search(term, filter(kind,
\* tasks)): the filter first, then the case-insensitive substring search on
\* title or description, in store order.
C6_Composite ==
    [][QueryStep =>
         View' = C6_search(search_var', C6_filter(current_filter', tasks', Today'))]_vars

\* C6 witness: of two high-priority tasks the search keeps the one whose
\* description alone holds the term.
C6_Witness ==
    /\ current_filter = "high" /\ search_var = <<"A">>
    /\ Len(tasks) = 2
    /\ tasks[1].priority = "high" /\ tasks[2].priority = "high"
    /\ tasks[1].title = <<"b">> /\ tasks[1].description = <<"A">>
    /\ filtered_tasks = <<1>>

\* C7: a filter or search step leaves the store's collection as it was: the
\* same tasks, the same field values, the same order.
C7_QueryKeepsStore == [][QueryStep => tasks' = tasks]_vars

\* C7 witness: the view shows one of the two tasks of the store.
C7_Witness ==
    /\ current_filter = "completed" /\ Len(tasks) = 2
    /\ Len(filtered_tasks) = 1

\* C8: a confirmed delete of an id in the store removes one task, the others
\* stay as they were and in their order.
C8_DeleteRemovesOne ==
    [][\A i \in IdInputs :
         (delete_task(i, TRUE) /\ i \in Ids(tasks)) =>
            /\ Len(tasks') = Len(tasks) - 1
            /\ IsSubsequence(tasks', tasks)
            /\ i \notin Ids(tasks')]_vars

\* the messages that report a success
SuccessNotices ==
    {"Task added successfully!", "Task completed!", "Task reopened!",
     "Task updated successfully!", "Task deleted!"}

\* the step reported a failure and left the collection and the file alone
C9_Refused ==
    /\ notice' \notin SuccessNotices \cup {"none"}
    /\ tasks' = tasks
    /\ file' = file

\* C9: update and setStatus with an id that is not in the store report a
\* failure and leave the collection and the persisted file unchanged.
C9_NotFoundReported ==
    [][\A i \in IdInputs :
         i \notin Ids(tasks) =>
            /\ (\E c \in BOOLEAN : toggle_task_status(i, c)) => C9_Refused
            /\ edit_task(i) => C9_Refused]_vars

\* C10: after a save cut short by the death of the process, the file loads
\* as the collection being saved or as the one saved before.
C10_SaveAllOrNothing ==
    [][/\ (\E k \in 0..MaxTasks : on_closing_crash(k)) =>
             load_tasks(file') \in {load_tasks(file), tasks}
       /\ \A t \in TitleInputs, d \in DescInputs, p \in PriorityInputs :
             (\E k \in 0..MaxTasks : add_task_crash(t, d, p, k)) =>
                 load_tasks(file') \in
                     {load_tasks(file),
                      Append(tasks, NewTask(tasks, strip(t), strip(d), p, now))}]_vars

\* the value of the member of object o named key
Member(o, key) == o[CHOOSE j \in 1..Len(o) : o[j][1] = key][2]

\* the collection a file holds: none unless the file is there and its array
\* is complete, else the tasks whose fields are the objects' members
C11_Held(f) ==
    IF f.exists /\ f.closed
    THEN [i \in 1..Len(f.objs) |->
            [id |-> Member(f.objs[i], "id"), title |-> Member(f.objs[i], "title"),
             description |-> Member(f.objs[i], "description"),
             priority |-> Member(f.objs[i], "priority"),
             status |-> Member(f.objs[i], "status"),
             created_at |-> Member(f.objs[i], "created_at"),
             due_date |-> Member(f.objs[i], "due_date")]]
    ELSE <<>>

\* C11, the step part: a start loads the collection the file holds, the
\* empty one when the file is absent or cut; a save that ends leaves a file
\* that loads as the collection saved.
C11_LoadStep ==
    /\ launch => tasks' = C11_Held(file)
    /\ (file' # file /\ file'.closed) =>
          load_tasks(file') = IF running' THEN tasks' ELSE tasks

C11_WitnessSaved ==
    ~running /\ file.closed /\ Len(file.objs) = 2

\* the label the classes of C12 are shown with
C12_Label(class) ==
    CASE class = "overdue"  -> [text |-> "Overdue", color |-> "danger"]
      [] class = "dueToday" -> [text |-> "Today", color |-> "warning"]
      [] class = "dueSoon"  -> [text |-> "days", color |-> "warning"]
      [] class = "normal"   -> [text |-> "days", color |-> "text_secondary"]

\* the class by whole calendar days between the due date and today
C12_Class(days) ==
    IF days < 0 THEN "overdue"
    ELSE IF days = 0 THEN "dueToday"
    ELSE IF days <= 3 THEN "dueSoon"
    ELSE "normal"

\* C12: every card a redraw makes carries the label of the class that
\* due_date - today gives in whole calendar days, whatever the time of day: a
\* task due today is dueToday, a task due yesterday or earlier is overdue.
C12_UrgencyByCalendarDays ==
    [][(\E f \in FilterTypes : filter_button(f)) =>
          \A k \in 1..Len(filtered_tasks') :
             due_label(View'[k], now') = C12_Label(C12_Class(View'[k].due_date - Today'))]_vars

\* the fields no operation may change
C13_Fixed(t) == <<t.id, t.created_at, t.due_date>>

\* the fields update may not change
C13_NotEdited(t) == <<t.id, t.status, t.created_at, t.due_date>>

\* the fields setStatus may not change
C13_NotToggled(t) == <<t.id, t.title, t.description, t.priority, t.created_at, t.due_date>>

C13_Step ==
    /\ Len(tasks') >= Len(tasks) =>
          \A i \in 1..Len(tasks) : C13_Fixed(tasks'[i]) = C13_Fixed(tasks[i])
    /\ Len(tasks') < Len(tasks) => IsSubsequence(tasks', tasks)
    /\ (\E t \in TitleInputs, d \in DescInputs, p \in PriorityInputs : save_changes(t, d, p)) =>
          /\ Len(tasks') = Len(tasks)
          /\ \A i \in 1..Len(tasks) : C13_NotEdited(tasks'[i]) = C13_NotEdited(tasks[i])
    /\ ToggleStep =>
          /\ Len(tasks') = Len(tasks)
          /\ \A i \in 1..Len(tasks) : C13_NotToggled(tasks'[i]) = C13_NotToggled(tasks[i])
    /\ ((\E f \in FilterTypes : filter_button(f)) \/ (\E s \in SearchInputs : search_tasks(s))) =>
          tasks' = tasks

\* C13: a task in the store keeps its id, created_at and due_date through
\* every operation (a delete leaves the other tasks as they were); update
\* leaves id, status, created_at and due_date of every task alone, setStatus
\* leaves everything but status alone, filter and search change no task.
C13_CreationFieldsFixed == [][C13_Step]_vars

\* C13 witness: an update has just been saved, days after the first task was
\* created, in a store whose tasks were created on different days
C13_Witness ==
    /\ notice = "Task updated successfully!"
    /\ Len(tasks) = 2
    /\ tasks[1].created_at < tasks[2].created_at
    /\ tasks[2].created_at = now
    /\ tasks[1].status = "completed"

\* C14: an add or an update whose title is empty after trimming appends no
\* task and leaves every task, in memory and in tasks.json, as it was before
\* the attempt.
C14_RejectedLeavesStore ==
    [][\A t \in TitleInputs, d \in DescInputs, p \in PriorityInputs :
          (strip(t) = <<>> /\ (add_task(t, d, p) \/ save_changes(t, d, p))) =>
             /\ notice' = "Please enter a task title!"
             /\ tasks' = tasks
             /\ file' = file]_vars

\* the status setStatus(id, completed) asks for
C15_Asked(completed) == IF completed THEN "completed" ELSE "pending"

\* C15: the checkbox of the k-th card of the view calls toggle_task_status
\* with that card's id; the step gives the task of that card the status asked
\* for and leaves the status of every other task as it was.
C15_ToggleHitsShownTask ==
    [][\A k \in 1..Len(filtered_tasks), c \in BOOLEAN :
          toggle_task_status(View[k].id, c) =>
             /\ Len(tasks') = Len(tasks)
             /\ tasks'[filtered_tasks[k]].status = C15_Asked(c)
             /\ \A i \in 1..Len(tasks) :
                   i # filtered_tasks[k] => tasks'[i].status = tasks[i].status]_vars

\* C16: between operations of the running application, the collection that
\* tasks.json holds is the collection in memory, task for task and field
\* for field.
C16_FileIsMemory == running => load_tasks(file) = tasks

\* C17: from the start and between operations of the running application,
\* the view is applyFilterAndSearch of the current filter, the current search
\* term and the current collection of the store.
C17_ViewIsComputed ==
    running => View = C6_search(search_var, C6_filter(current_filter, tasks, Today))
====
